---- MODULE Spec2Model ----
(***************************************************************************)
(* Safety-guardrails pipeline of src/guardrails/guardrails_system.py:      *)
(* ContentFilter, ToxicityDetector, RateLimiter, ContextValidator,         *)
(* OutputValidator and the GuardrailsSystem orchestrator.                  *)
(*                                                                         *)
(* Time is counted in seconds.  A text is represented by what the          *)
(* pattern matchers see of it (which patterns match it, whether it holds   *)
(* an indicator phrase, its length); confidences are in hundredths.        *)
(***************************************************************************)
EXTENDS Integers, Sequences, FiniteSets, TLC

VARIABLES
    now,              \* datetime.now(), in seconds
    user_sessions,    \* RateLimiter.user_sessions: user id -> UserSession
    tasks,            \* the requests in flight: one coroutine each
    ncalls,           \* number of operations started so far
    nticks,           \* number of times the clock was advanced so far
    only_outage,      \* history: user -> all their input so far was safe and every moderation call of theirs failed
    last_rate,        \* history: the last direct check_rate_limit call
    burst,            \* history: user -> the check_rate_limit calls since their session was created
    safety_responses, \* GuardrailsSystem.safety_responses: level -> text
    last_response,    \* history: the last get_safety_response call
    threads,          \* the threads of the preemptive (multi-threaded) execution
    accepted,         \* history: check_rate_limit calls that returned SAFE, add_warning calls made (threads)
    last_check,       \* history: the last direct call of a check or configuration method
    peer_responses,   \* safety_responses of a second GuardrailsSystem instance
    limits            \* RateLimiter.limits: name -> number

vars == <<now, user_sessions, tasks, ncalls, nticks, only_outage, last_rate, burst,
          safety_responses, last_response, threads, accepted, last_check,
          peer_responses, limits>>

(***************************************************************************)
(* Bounds of the model                                                     *)
(***************************************************************************)
MaxCalls == 2          \* operations started in the pipeline specification
MaxOutageCalls == 4    \* check_input calls in the outage specification
MaxRateCalls == 12     \* direct RateLimiter calls in the rate-limiter specification
MaxTicks == 1          \* clock advances in the pipeline specification
MaxRateTicks == 2      \* clock advances in the rate-limiter specification
MaxWarnings == 3       \* direct add_warning calls in the rate-limiter specification
MaxResults == 3        \* length of the lists given to get_safety_response
MaxThreadOps == 2      \* operations of each thread
MaxConfigs == 2        \* add_custom_safety_response calls in the two-instance specification
MaxOverlap == 2        \* distinct words that a response given to validate_output shares with the query
MaxMatches == 2        \* patterns of one list that a text given to check_content matches
MaxUserCalls == 3      \* operations started when the requests of two users interleave
MaxWindowCalls == 6    \* check_rate_limit calls under configured limits
MaxWindowTicks == 3    \* clock advances under configured limits

Users == {"alice", "bob"}
Tasks == {"t1", "t2"}
\* one request at a time
Sequential == {"t1"}
Threads == {"th1", "th2"}

(***************************************************************************)
(* SafetyLevel, GuardrailType, GuardrailResult                             *)
(***************************************************************************)
SAFE == "safe"
WARNING == "warning"
UNSAFE == "unsafe"
BLOCKED == "blocked"
SafetyLevel == {SAFE, WARNING, UNSAFE, BLOCKED}

CONTENT_FILTER == "content_filter"
TOXICITY_DETECTION == "toxicity_detection"
PII_DETECTION == "pii_detection"
RATE_LIMITING == "rate_limiting"
CONTEXT_VALIDATION == "context_validation"
OUTPUT_VALIDATION == "output_validation"

\* metadata is a set of <<key, value>> pairs (None is the empty set)
GuardrailResult(safe, level, type, why, conf, action, meta) ==
    [is_safe |-> safe, safety_level |-> level, guardrail_type |-> type,
     reason |-> why, confidence |-> conf, suggested_action |-> action,
     metadata |-> meta]

(***************************************************************************)
(* ContentFilter                                                           *)
(***************************************************************************)
\* the pattern lists, in list order, each pattern under a name
harmful_patterns == <<"self_harm", "weapon_making", "drugs", "hacking", "abuse">>
sensitive_patterns == <<"mental_health", "medical", "legal", "financial">>
pii_patterns == <<"ssn", "phone", "email", "credit_card">>

\* re.search(pattern, text): a text carries the set of patterns that match it
Matches(kind, i, text) == i \in text[kind]

\* index of the first pattern of the list that matches, 0 when none does
FirstMatch(kind, patterns, text) ==
    IF \E i \in 1..Len(patterns) : Matches(kind, i, text)
    THEN CHOOSE i \in 1..Len(patterns) :
            /\ Matches(kind, i, text)
            /\ \A j \in 1..(i - 1) : ~Matches(kind, j, text)
    ELSE 0

\* a check_content that looks for sensitive patterns first
check_content_SensitiveFirst(text) ==
    LET h == FirstMatch("harmful", harmful_patterns, text)
        s == FirstMatch("sensitive", sensitive_patterns, text)
    IN  IF s # 0
        THEN GuardrailResult(TRUE, WARNING, CONTENT_FILTER,
                 <<"Detected sensitive content", sensitive_patterns[s]>>, 70,
                 "Proceed with disclaimer",
                 {<<"pattern_matched", sensitive_patterns[s]>>,
                  <<"requires_disclaimer", "True">>})
        ELSE IF h # 0
        THEN GuardrailResult(FALSE, BLOCKED, CONTENT_FILTER,
                 <<"Detected harmful content pattern", harmful_patterns[h]>>, 90,
                 "Block request and provide safety resources",
                 {<<"pattern_matched", harmful_patterns[h]>>})
        ELSE GuardrailResult(TRUE, SAFE, CONTENT_FILTER,
                 <<"No harmful content detected">>, 80, "Proceed normally", {})

check_content(text) ==
    LET h == FirstMatch("harmful", harmful_patterns, text)
        s == FirstMatch("sensitive", sensitive_patterns, text)
    IN  IF h # 0
        THEN GuardrailResult(FALSE, BLOCKED, CONTENT_FILTER,
                 <<"Detected harmful content pattern", harmful_patterns[h]>>, 90,
                 "Block request and provide safety resources",
                 {<<"pattern_matched", harmful_patterns[h]>>})
        ELSE IF s # 0
        THEN GuardrailResult(TRUE, WARNING, CONTENT_FILTER,
                 <<"Detected sensitive content", sensitive_patterns[s]>>, 70,
                 "Proceed with disclaimer",
                 {<<"pattern_matched", sensitive_patterns[s]>>,
                  <<"requires_disclaimer", "True">>})
        ELSE GuardrailResult(TRUE, SAFE, CONTENT_FILTER,
                 <<"No harmful content detected">>, 80, "Proceed normally", {})

\* a check_pii that stops at the first matching pattern
found_pii_FirstOnly(text) ==
    LET first == FirstMatch("pii", pii_patterns, text)
    IN  IF first = 0 THEN <<>> ELSE <<pii_patterns[first]>>

\* the names of the matching PII patterns, in dictionary order
found_pii(text) ==
    SelectSeq(pii_patterns,
              LAMBDA name : \E i \in 1..Len(pii_patterns) :
                               pii_patterns[i] = name /\ Matches("pii", i, text))

\* a PII check that warns and lets the pipeline go on
check_pii_Warns(text) ==
    IF found_pii(text) # <<>>
    THEN GuardrailResult(TRUE, WARNING, PII_DETECTION,
             <<"Detected PII">> \o found_pii(text), 95,
             "Remove PII before processing",
             {<<"pii_found", found_pii(text)>>})
    ELSE GuardrailResult(TRUE, SAFE, PII_DETECTION,
             <<"No PII detected">>, 90, "Proceed normally", {})

check_pii(text) ==
    IF found_pii(text) # <<>>
    THEN GuardrailResult(FALSE, UNSAFE, PII_DETECTION,
             <<"Detected PII">> \o found_pii(text), 95,
             "Remove PII before processing",
             {<<"pii_found", found_pii(text)>>})
    ELSE GuardrailResult(TRUE, SAFE, PII_DETECTION,
             <<"No PII detected">>, 90, "Proceed normally", {})

(***************************************************************************)
(* ToxicityDetector                                                        *)
(***************************************************************************)
\* attribute values of the moderation response objects
Bool(b) == [type |-> "bool", val |-> IF b THEN 1 ELSE 0]
Float(x) == [type |-> "float", val |-> x]
Method == [type |-> "method", val |-> 1]
Truthy(v) == v.val # 0

\* dir(categories): the attribute names in sorted order; a response object
\* carries private attributes and methods next to the category fields
ResponseAttrs ==
    <<[name |-> "__class__", underscore |-> TRUE],
      [name |-> "copy", underscore |-> FALSE],
      [name |-> "harassment", underscore |-> FALSE],
      [name |-> "hate", underscore |-> FALSE],
      [name |-> "violence", underscore |-> FALSE]>>

CategoryNames == {"harassment", "hate", "violence"}

Categories(flaggedNames) ==
    [n \in CategoryNames \cup {"copy", "__class__"} |->
        IF n \in CategoryNames THEN Bool(n \in flaggedNames) ELSE Method]

CategoryScores(hi, score) ==
    [n \in CategoryNames \cup {"copy", "__class__"} |->
        IF n \in CategoryNames THEN Float(IF n \in hi THEN score ELSE 1) ELSE Method]

\* what `await self.client.moderations.create(input=text)` can come to
Response(flagged, cats, scores) ==
    [kind |-> "response", flagged |-> flagged, results |-> 1,
     categories |-> cats, category_scores |-> scores, error |-> "none"]
RaisedBy(kind, err) ==
    [kind |-> kind, flagged |-> FALSE, results |-> 0,
     categories |-> <<>>, category_scores |-> <<>>, error |-> err]

ModClean == Response(FALSE, Categories({}), CategoryScores({"hate"}, 5))
ModFlagged == Response(TRUE, Categories({"hate"}), CategoryScores({"hate"}, 95))
ModTimeout == RaisedBy("raise", "APITimeoutError")
\* a response with an empty results list: response.results[0] raises IndexError
ModMalformed == RaisedBy("response", "IndexError")

\* no call made, and a call that has not completed
ModNone == RaisedBy("none", "none")
ModPending == RaisedBy("pending", "none")

ModerationOutcomes == {ModClean, ModFlagged, ModTimeout, ModMalformed}
\* the call raised, or its response is malformed
ModerationFailed(o) == o.kind = "raise" \/ (o.kind = "response" /\ o.results = 0)

getattr(obj, name, default) == IF name \in DOMAIN obj THEN obj[name] ELSE default

\* the loop of lines 181-195 from attribute i on
RECURSIVE ScanCategories(_, _, _, _)
ScanCategories(i, categories, category_scores, acc) ==
    IF i > Len(ResponseAttrs) THEN acc
    ELSE LET category_name == ResponseAttrs[i].name
             is_flagged == getattr(categories, category_name, Bool(FALSE))
             score == getattr(category_scores, category_name, Float(0))
             acc1 == IF Truthy(is_flagged)
                     THEN [acc EXCEPT !.flagged_categories = Append(@, category_name)]
                     ELSE acc
             acc2 == IF score.type # "float"
                     THEN acc1                      \* TypeError: continue
                     ELSE IF score.val > acc1.max_score
                     THEN [acc1 EXCEPT !.max_score = score.val,
                                       !.max_category = category_name]
                     ELSE acc1
         IN  IF ResponseAttrs[i].underscore
             THEN ScanCategories(i + 1, categories, category_scores, acc)
             ELSE ScanCategories(i + 1, categories, category_scores, acc2)

\* the loop of lines 214-221
RECURSIVE ScanScores(_, _, _)
ScanScores(i, category_scores, max_score) ==
    IF i > Len(ResponseAttrs) THEN max_score
    ELSE LET score == getattr(category_scores, ResponseAttrs[i].name, Float(0))
         IN  IF ResponseAttrs[i].underscore \/ score.type # "float"
                \/ score.val <= max_score
             THEN ScanScores(i + 1, category_scores, max_score)
             ELSE ScanScores(i + 1, category_scores, score.val)

Return(result) == [exception |-> "none", result |-> result]
Raise(err) == [exception |-> err, result |-> GuardrailResult(FALSE, SAFE, "none", <<>>, 0, "", {})]

\* the try block of check_toxicity, lines 165-232
ToxicityTry(outcome) ==
    IF outcome.kind = "raise" THEN Raise(outcome.error)
    ELSE IF outcome.results = 0 THEN Raise("IndexError")
    ELSE IF outcome.flagged
    THEN LET scan == ScanCategories(1, outcome.categories, outcome.category_scores,
                        [flagged_categories |-> <<>>, max_score |-> 0,
                         max_category |-> "unknown"])
         IN  Return(GuardrailResult(FALSE, BLOCKED, TOXICITY_DETECTION,
                 <<"Content flagged for">> \o
                     (IF scan.flagged_categories # <<>> THEN scan.flagged_categories
                      ELSE <<"policy violation">>),
                 scan.max_score,
                 "Block content and provide alternative response",
                 {<<"flagged_categories", scan.flagged_categories>>,
                  <<"max_score", scan.max_score>>,
                  <<"max_category", scan.max_category>>}))
    ELSE Return(GuardrailResult(TRUE, SAFE, TOXICITY_DETECTION,
                 <<"Content passed toxicity check">>,
                 100 - ScanScores(1, outcome.category_scores, 0),
                 "Proceed normally", {}))

\* a handler that catches the client's API errors only
ToxicityExcept_ApiErrorsOnly(err) ==
    IF err \in {"APITimeoutError", "APIConnectionError"}
    THEN Return(GuardrailResult(TRUE, WARNING, TOXICITY_DETECTION,
                    <<"Toxicity check failed", err>>, 50, "Proceed with caution",
                    {<<"error", err>>}))
    ELSE Raise(err)

\* the handler `except Exception as e`, lines 234-244
ToxicityExcept(err) ==
    Return(GuardrailResult(TRUE, WARNING, TOXICITY_DETECTION,
               <<"Toxicity check failed", err>>, 50, "Proceed with caution",
               {<<"error", err>>}))

check_toxicity(outcome) ==
    LET body == ToxicityTry(outcome)
    IN  IF body.exception # "none" THEN ToxicityExcept(body.exception) ELSE body

(***************************************************************************)
(* RateLimiter                                                             *)
(***************************************************************************)
\* RateLimiter.limits as __init__ sets them
DefaultLimits ==
    [messages_per_minute |-> 10, messages_per_hour |-> 100,
     warnings_per_session |-> 3, session_timeout_minutes |-> 30]

\* self.limits["..."], read at each call
messages_per_minute == limits.messages_per_minute
messages_per_hour == limits.messages_per_hour
warnings_per_session == limits.warnings_per_session
session_timeout_minutes == limits.session_timeout_minutes

\* timedelta(minutes=m), timedelta(hours=1), in seconds
SecondsPerMinute == 60
Minutes(m) == m * SecondsPerMinute
OneHour == Minutes(60)

UserSession(user_id, t) ==
    [user_id |-> user_id, session_start |-> t, message_count |-> 0,
     last_message_time |-> t, warning_count |-> 0, violation_history |-> <<>>]

\* lines 264-273: get or create the user's session
GetOrCreate(sessions, user_id, t) ==
    IF user_id \in DOMAIN sessions THEN sessions
    ELSE (user_id :> UserSession(user_id, t)) @@ sessions

\* a reset that leaves the warnings of the old session in place
TimeoutReset_KeepsWarnings(session, t) ==
    IF t - session.last_message_time > Minutes(session_timeout_minutes)
    THEN [session EXCEPT !.message_count = 0, !.session_start = t]
    ELSE session

\* a timeout check that stamps the session with the time of the call
TimeoutReset_StampsTime(session, t) ==
    IF t - session.last_message_time > Minutes(session_timeout_minutes)
    THEN [session EXCEPT !.message_count = 0, !.warning_count = 0,
                         !.session_start = t, !.last_message_time = t]
    ELSE [session EXCEPT !.last_message_time = t]

\* a reset that starts the new session with an empty violation_history
TimeoutReset_ClearsHistory(session, t) ==
    IF t - session.last_message_time > Minutes(session_timeout_minutes)
    THEN [session EXCEPT !.message_count = 0, !.warning_count = 0,
                         !.session_start = t, !.violation_history = <<>>]
    ELSE session

\* lines 277-282: the session after the timeout check
TimeoutReset(session, t) ==
    IF t - session.last_message_time > Minutes(session_timeout_minutes)
    THEN [session EXCEPT !.message_count = 0, !.warning_count = 0,
                         !.session_start = t]
    ELSE session

\* an update that counts the message and leaves last_message_time
UpdateSession_KeepsTime(session, t) ==
    [session EXCEPT !.message_count = @ + 1]

\* lines 322-324: the session of an accepted message
UpdateSession(session, t) ==
    [session EXCEPT !.message_count = @ + 1, !.last_message_time = t]

\* a per-minute test that counts the minute from the start of the session
PerMinuteExceeded_SinceStart(session, t) ==
    /\ t - session.session_start < Minutes(1)
    /\ session.message_count >= messages_per_minute

\* a per-minute test that lets one message more through
PerMinuteExceeded_OffByOne(session, t) ==
    /\ t - session.last_message_time < Minutes(1)
    /\ session.message_count > messages_per_minute

\* lines 285-286
PerMinuteExceeded(session, t) ==
    /\ t - session.last_message_time < Minutes(1)
    /\ session.message_count >= messages_per_minute

\* lines 298-299
PerHourExceeded(session, t) ==
    /\ t - session.session_start < OneHour
    /\ session.message_count >= messages_per_hour

\* a warning test that lets a session at the limit through
TooManyWarnings_StrictlyMore(session) ==
    session.warning_count > warnings_per_session

\* line 311
TooManyWarnings(session) == session.warning_count >= warnings_per_session

\* check_rate_limit(user_id) called at time t: the sessions it leaves and
\* the result it returns
check_rate_limit(sessions, user_id, t) ==
    LET created == GetOrCreate(sessions, user_id, t)
        session == TimeoutReset(created[user_id], t)
        kept == [created EXCEPT ![user_id] = session]
    IN  IF PerMinuteExceeded(session, t)
        THEN [sessions |-> kept,
              result |-> GuardrailResult(FALSE, BLOCKED, RATE_LIMITING,
                  <<"Rate limit exceeded: too many messages per minute">>, 100,
                  "Block request and ask user to slow down",
                  {<<"limit_type", "per_minute">>, <<"count", session.message_count>>})]
        ELSE IF PerHourExceeded(session, t)
        THEN [sessions |-> kept,
              result |-> GuardrailResult(FALSE, BLOCKED, RATE_LIMITING,
                  <<"Rate limit exceeded: too many messages per hour">>, 100,
                  "Block request and implement cooling off period",
                  {<<"limit_type", "per_hour">>, <<"count", session.message_count>>})]
        ELSE IF TooManyWarnings(session)
        THEN [sessions |-> kept,
              result |-> GuardrailResult(FALSE, BLOCKED, RATE_LIMITING,
                  <<"Too many warnings in session">>, 100,
                  "End session and require fresh start",
                  {<<"warning_count", session.warning_count>>})]
        ELSE [sessions |-> [created EXCEPT ![user_id] = UpdateSession(session, t)],
              result |-> GuardrailResult(TRUE, SAFE, RATE_LIMITING,
                  <<"Within rate limits">>, 100, "Proceed normally",
                  {<<"message_count", session.message_count + 1>>})]

\* add_warning(user_id, reason) called at time t
\* a warning counted against every session
add_warning_AllSessions(sessions, user_id, reason, t) ==
    IF user_id \in DOMAIN sessions
    THEN [u \in DOMAIN sessions |->
            [sessions[u] EXCEPT
                !.warning_count = @ + 1,
                !.violation_history = Append(@, [time |-> t, reason |-> reason])]]
    ELSE sessions

add_warning(sessions, user_id, reason, t) ==
    IF user_id \in DOMAIN sessions
    THEN [sessions EXCEPT
            ![user_id].warning_count = @ + 1,
            ![user_id].violation_history = Append(@, [time |-> t, reason |-> reason])]
    ELSE sessions

(***************************************************************************)
(* ContextValidator                                                        *)
(***************************************************************************)
max_context_length == 4000
max_turns == 20

RECURSIVE Sum(_)
Sum(seq) == IF seq = <<>> THEN 0 ELSE Head(seq) + Sum(Tail(seq))

\* len(" ".join(contents) + current_message); a history is the sequence of
\* the lengths of its entries' content (0 for an entry without content)
TotalContextLen(conversation_history, current_message) ==
    Sum(conversation_history)
    + (IF Len(conversation_history) > 0 THEN Len(conversation_history) - 1 ELSE 0)
    + current_message.len

\* a message carries whether it contains one of the switching indicators
detect_context_switching(history, message) == message.switching

validate_context(conversation_history, current_message) ==
    IF Len(conversation_history) > max_turns
    THEN GuardrailResult(FALSE, WARNING, CONTEXT_VALIDATION,
             <<"Conversation too long, context may be degraded">>, 80,
             "Truncate conversation history",
             {<<"turn_count", Len(conversation_history)>>})
    ELSE IF TotalContextLen(conversation_history, current_message) > max_context_length
    THEN GuardrailResult(FALSE, WARNING, CONTEXT_VALIDATION,
             <<"Context length exceeds maximum">>, 90,
             "Truncate context to fit limits",
             {<<"context_length",
                TotalContextLen(conversation_history, current_message)>>})
    ELSE IF detect_context_switching(conversation_history, current_message)
    THEN GuardrailResult(FALSE, UNSAFE, CONTEXT_VALIDATION,
             <<"Potential context switching attack detected">>, 70,
             "Reset conversation context", {<<"attack_type", "context_switching">>})
    ELSE GuardrailResult(TRUE, SAFE, CONTEXT_VALIDATION,
             <<"Context validation passed">>, 90, "Proceed normally", {})

(***************************************************************************)
(* OutputValidator                                                         *)
(***************************************************************************)
max_response_length == 2000

\* a response carries whether it contains a leak indicator, how many of the
\* query's distinct words it shares, and its length
contains_system_leak(response) == response.leak

\* overlap >= max(1, len(query_words) * 0.2), in fifths
is_relevant_response(response, query) ==
    /\ response.overlap >= 1
    /\ 5 * response.overlap >= query.words

\* a validate_output that tests the length before the relevance
validate_output_LengthFirst(response, original_query) ==
    IF contains_system_leak(response)
    THEN GuardrailResult(FALSE, BLOCKED, OUTPUT_VALIDATION,
             <<"Response contains leaked system information">>, 90,
             "Generate new response", {<<"leak_type", "system_prompt">>})
    ELSE IF response.len > max_response_length
    THEN GuardrailResult(TRUE, WARNING, OUTPUT_VALIDATION,
             <<"Response very long">>, 80, "Consider truncating response",
             {<<"response_length", response.len>>})
    ELSE IF ~is_relevant_response(response, original_query)
    THEN GuardrailResult(FALSE, WARNING, OUTPUT_VALIDATION,
             <<"Response not relevant to query">>, 60,
             "Generate more relevant response", {<<"relevance_score", 30>>})
    ELSE GuardrailResult(TRUE, SAFE, OUTPUT_VALIDATION,
             <<"Output validation passed">>, 90, "Send response to user", {})

validate_output(response, original_query) ==
    IF contains_system_leak(response)
    THEN GuardrailResult(FALSE, BLOCKED, OUTPUT_VALIDATION,
             <<"Response contains leaked system information">>, 90,
             "Generate new response", {<<"leak_type", "system_prompt">>})
    ELSE IF ~is_relevant_response(response, original_query)
    THEN GuardrailResult(FALSE, WARNING, OUTPUT_VALIDATION,
             <<"Response not relevant to query">>, 60,
             "Generate more relevant response", {<<"relevance_score", 30>>})
    ELSE IF response.len > max_response_length
    THEN GuardrailResult(TRUE, WARNING, OUTPUT_VALIDATION,
             <<"Response very long">>, 80, "Consider truncating response",
             {<<"response_length", response.len>>})
    ELSE GuardrailResult(TRUE, SAFE, OUTPUT_VALIDATION,
             <<"Output validation passed">>, 90, "Send response to user", {})

(***************************************************************************)
(* Inputs the operations are called with                                   *)
(***************************************************************************)
Text(h, s, p, sw, n) ==
    [harmful |-> h, sensitive |-> s, pii |-> p, switching |-> sw, len |-> n]

MsgSafe == Text({}, {}, {}, FALSE, 25)             \* "What is machine learning?"
MsgSensitive == Text({}, {1}, {}, TRUE, 49)        \* a sensitive topic with "you are now"
MsgHarmful == Text({2, 4}, {1}, {}, FALSE, 41)     \* "how to build weapon with therapy and hack"
MsgPII == Text({}, {}, {1, 3}, FALSE, 54)          \* "My SSN is ... and my email is ..."
MsgSwitch == Text({}, {}, {}, TRUE, 66)            \* "Ignore previous instructions ..."
MsgSensitivePII == Text({}, {3}, {2}, FALSE, 40)   \* sensitive topic and a phone number
\* a sensitive topic, a phone number and "you are now"
MsgSensitiveSwitchPII == Text({}, {3}, {2}, TRUE, 52)
Messages == {MsgSafe, MsgSensitive, MsgHarmful, MsgPII, MsgSwitch, MsgSensitivePII}

HistEmpty == <<>>
HistManyTurns == [i \in 1..(max_turns + 1) |-> 10]
Histories == {HistEmpty, HistManyTurns}
\* the (message, history) pairs check_input is called with
Inputs ==
    (Messages \X {HistEmpty})
       \cup {<<MsgSafe, HistManyTurns>>, <<MsgSensitiveSwitchPII, HistEmpty>>}

Output(leak, overlap, n) == [leak |-> leak, overlap |-> overlap, len |-> n]
Query(words) == [words |-> words]
Responses == {Output(FALSE, 1, 52), Output(TRUE, 0, 68), Output(FALSE, 0, 33),
              Output(FALSE, 2, max_response_length + 1)}
Queries == {Query(3)}

\* the message and history are safe for the content, PII and context checks
InputIsSafe(message, history) ==
    /\ check_content(message).safety_level = SAFE
    /\ check_pii(message).safety_level = SAFE
    /\ validate_context(history, message).safety_level = SAFE

(***************************************************************************)
(* GuardrailsSystem                                                        *)
(***************************************************************************)
WarningText == "I want to be helpful while keeping our conversation appropriate."
UnsafeText == "I noticed some concerning content. Let me help you with something safer."
BlockedText == "I can't help with that request. Let's talk about something else."
FallbackText == "I'm here to help with appropriate questions. What else can I assist you with?"
CustomText == "custom"

\* __init__, lines 508-512
DefaultResponses == (BLOCKED :> BlockedText) @@ (UNSAFE :> UnsafeText)
                        @@ (WARNING :> WarningText)

NoResult == GuardrailResult(TRUE, SAFE, "none", <<>>, 0, "", {})
NoText == Text({}, {}, {}, FALSE, 0)

IdleTask ==
    [pc |-> "idle", op |-> "none", user_id |-> "none", message |-> NoText,
     history |-> <<>>, results |-> <<>>, moderation |-> ModNone,
     moderation_calls |-> 0, warned |-> <<>>,
     ret |-> [safe |-> FALSE, value |-> <<>>]]

\* lines 549-551: add_warning for the results from index i on
RECURSIVE AddWarnings(_, _, _, _, _)
AddWarnings(sessions, user_id, results, i, t) ==
    IF i > Len(results) THEN sessions
    ELSE IF results[i].safety_level \in {WARNING, UNSAFE}
    THEN AddWarnings(add_warning(sessions, user_id, results[i].reason, t),
                     user_id, results, i + 1, t)
    ELSE AddWarnings(sessions, user_id, results, i + 1, t)

ViolationHistory(sessions, user_id) ==
    IF user_id \in DOMAIN sessions THEN sessions[user_id].violation_history ELSE <<>>

\* the reasons appended to the user's violation_history between two values
\* of the session store
Appended(before, after, user_id) ==
    LET old == ViolationHistory(before, user_id)
        new == ViolationHistory(after, user_id)
    IN  [i \in 1..(Len(new) - Len(old)) |-> new[Len(old) + i].reason]

\* the coroutine has returned (safe, value): its arguments are gone
Returned(task, safe, value) ==
    [task EXCEPT !.pc = "done", !.results = value,
                 !.message = NoText, !.history = <<>>,
                 !.ret = [safe |-> safe, value |-> value]]

\* a check_input that does not return on an unsafe PII result
CheckInputBegin_NoPiiStop(sessions, user_id, message, history, t) ==
    LET rate == check_rate_limit(sessions, user_id, t)
        rate_result == rate.result
        content_result == check_content(message)
        pii_result == check_pii(message)
        called == [IdleTask EXCEPT !.op = "check_input", !.user_id = user_id,
                                   !.message = message, !.history = history]
        task == [called EXCEPT !.warned = Appended(sessions, rate.sessions, user_id)]
    IN  [sessions |-> rate.sessions,
         task |->
            IF ~rate_result.is_safe
            THEN Returned(task, FALSE, <<rate_result>>)
            ELSE IF ~content_result.is_safe
            THEN Returned(task, FALSE, <<rate_result, content_result>>)
            ELSE [task EXCEPT !.pc = "await",
                              !.results = <<rate_result, content_result, pii_result>>,
                              !.moderation = ModPending,
                              !.moderation_calls = 1]]

\* check_input up to the moderation call, lines 516-537: what the coroutine
\* and the sessions are when it returns or suspends
CheckInputBegin(sessions, user_id, message, history, t) ==
    LET rate == check_rate_limit(sessions, user_id, t)
        rate_result == rate.result
        content_result == check_content(message)
        pii_result == check_pii(message)
        called == [IdleTask EXCEPT !.op = "check_input", !.user_id = user_id,
                                 !.message = message, !.history = history]
        task == [called EXCEPT !.warned = Appended(sessions, rate.sessions, user_id)]
    IN  [sessions |-> rate.sessions,
         task |->
            IF ~rate_result.is_safe
            THEN Returned(task, FALSE, <<rate_result>>)
            ELSE IF ~content_result.is_safe
            THEN Returned(task, FALSE, <<rate_result, content_result>>)
            ELSE IF ~pii_result.is_safe
            THEN Returned(task, FALSE, <<rate_result, content_result, pii_result>>)
            ELSE [task EXCEPT !.pc = "await",
                              !.results = <<rate_result, content_result, pii_result>>,
                              !.moderation = ModPending,
                              !.moderation_calls = 1]]

\* a check_input that returns on every unsafe context result
CheckInputEnd_StopsOnUnsafeContext(sessions, task, t) ==
    LET toxicity == check_toxicity(task.moderation)
        results4 == Append(task.results, toxicity.result)
        context_result == validate_context(task.history, task.message)
        results5 == Append(results4, context_result)
    IN  IF toxicity.exception # "none"
        THEN [sessions |-> sessions,
              task |-> [task EXCEPT !.pc = "raised"]]
        ELSE IF ~toxicity.result.is_safe
        THEN [sessions |-> sessions, task |-> Returned(task, FALSE, results4)]
        ELSE IF ~context_result.is_safe
        THEN [sessions |-> sessions, task |-> Returned(task, FALSE, results5)]
        ELSE LET warned == AddWarnings(sessions, task.user_id, results5, 1, t)
             IN  [sessions |-> warned,
                  task |-> [Returned(task, TRUE, results5) EXCEPT
                               !.warned = task.warned
                                   \o Appended(sessions, warned, task.user_id)]]

\* check_input from the moderation call's completion on, lines 537-553
CheckInputEnd(sessions, task, t) ==
    LET toxicity == check_toxicity(task.moderation)
        results4 == Append(task.results, toxicity.result)
        context_result == validate_context(task.history, task.message)
        results5 == Append(results4, context_result)
    IN  IF toxicity.exception # "none"
        THEN [sessions |-> sessions,
              task |-> [task EXCEPT !.pc = "raised"]]
        ELSE IF ~toxicity.result.is_safe
        THEN [sessions |-> sessions, task |-> Returned(task, FALSE, results4)]
        ELSE IF ~context_result.is_safe /\ context_result.safety_level = BLOCKED
        THEN [sessions |-> sessions, task |-> Returned(task, FALSE, results5)]
        ELSE LET warned == AddWarnings(sessions, task.user_id, results5, 1, t)
             IN  [sessions |-> warned,
                  task |-> [Returned(task, TRUE, results5) EXCEPT
                               !.warned = task.warned
                                   \o Appended(sessions, warned, task.user_id)]]

\* check_output up to the moderation call, lines 558-564
CheckOutputBegin(response, original_query) ==
    LET output_result == validate_output(response, original_query)
        task == [IdleTask EXCEPT !.op = "check_output"]
    IN  IF ~output_result.is_safe
        THEN [Returned(task, FALSE, <<output_result>>)
                  EXCEPT !.results = <<output_result>>]
        ELSE [task EXCEPT !.pc = "await", !.results = <<output_result>>,
                          !.moderation = ModPending, !.moderation_calls = 1]

\* check_output from the moderation call's completion on, lines 564-568
CheckOutputEnd(task) ==
    LET toxicity == check_toxicity(task.moderation)
        output_result == task.results[1]
        produced == Append(task.results, toxicity.result)
    IN  IF toxicity.exception # "none"
        THEN [task EXCEPT !.pc = "raised"]
        ELSE IF ~toxicity.result.is_safe
        THEN [Returned(task, FALSE, <<toxicity.result>>) EXCEPT !.results = produced]
        ELSE [Returned(task, TRUE, <<output_result>>) EXCEPT !.results = produced]

\* a loop in which a WARNING replaces whatever was found before it
RECURSIVE MaxSeverity_LastWins(_, _, _)
MaxSeverity_LastWins(results, i, max_severity) ==
    IF i > Len(results) THEN max_severity
    ELSE IF results[i].safety_level = BLOCKED THEN BLOCKED
    ELSE IF results[i].safety_level = UNSAFE
    THEN MaxSeverity_LastWins(results, i + 1, UNSAFE)
    ELSE IF results[i].safety_level = WARNING
    THEN MaxSeverity_LastWins(results, i + 1, WARNING)
    ELSE MaxSeverity_LastWins(results, i + 1, max_severity)

\* get_safety_response, lines 573-582: the loop from index i on
RECURSIVE MaxSeverity(_, _, _)
MaxSeverity(results, i, max_severity) ==
    IF i > Len(results) THEN max_severity
    ELSE IF results[i].safety_level = BLOCKED THEN BLOCKED
    ELSE IF results[i].safety_level = UNSAFE THEN MaxSeverity(results, i + 1, UNSAFE)
    ELSE IF results[i].safety_level = WARNING /\ max_severity = SAFE
    THEN MaxSeverity(results, i + 1, WARNING)
    ELSE MaxSeverity(results, i + 1, max_severity)

\* get_safety_response(results) with the response table `table`
get_safety_response(table, results) ==
    LET max_severity == MaxSeverity(results, 1, SAFE)
    IN  IF max_severity \in DOMAIN table THEN table[max_severity] ELSE FallbackText

add_custom_safety_response(table, level, response) ==
    (level :> response) @@ table

(***************************************************************************)
(* The pipeline: requests as coroutines of one event loop.  A coroutine    *)
(* runs without interruption up to its moderation call, and from the       *)
(* call's completion to its return.                                        *)
(***************************************************************************)
\* a gap longer than the session timeout
Delays == {1801}

Free(t) == tasks[t].pc \in {"idle", "done", "raised"}

CheckInputStart(t, user_id, message, history) ==
    /\ Free(t)
    /\ LET begin == CheckInputBegin(user_sessions, user_id, message, history, now)
       IN  /\ user_sessions' = begin.sessions
           /\ tasks' = [tasks EXCEPT ![t] = begin.task]
    /\ ncalls' = ncalls + 1
    /\ only_outage' = [only_outage EXCEPT
                          ![user_id] = @ /\ InputIsSafe(message, history)]
    /\ UNCHANGED <<now, nticks, last_rate, burst, safety_responses,
                   last_response, threads, accepted, last_check, peer_responses, limits>>

CheckInputResume(t) ==
    /\ tasks[t].pc = "await"
    /\ tasks[t].op = "check_input"
    /\ tasks[t].moderation.kind \in {"response", "raise"}
    /\ LET end == CheckInputEnd(user_sessions, tasks[t], now)
       IN  /\ user_sessions' = end.sessions
           /\ tasks' = [tasks EXCEPT ![t] = end.task]
    /\ UNCHANGED <<now, ncalls, nticks, only_outage, last_rate, burst,
                   safety_responses, last_response, threads, accepted,
                   last_check, peer_responses, limits>>

CheckOutputStart(t, response, original_query) ==
    /\ Free(t)
    /\ tasks' = [tasks EXCEPT ![t] = CheckOutputBegin(response, original_query)]
    /\ ncalls' = ncalls + 1
    /\ UNCHANGED <<now, user_sessions, nticks, only_outage, last_rate, burst,
                   safety_responses, last_response, threads, accepted,
                   last_check, peer_responses, limits>>

\* a check_output that records its warnings against the sessions
CheckOutputResume_Warns(t) ==
    /\ tasks[t].pc = "await"
    /\ tasks[t].op = "check_output"
    /\ tasks[t].moderation.kind \in {"response", "raise"}
    /\ tasks' = [tasks EXCEPT ![t] = CheckOutputEnd(tasks[t])]
    /\ user_sessions' =
          [u \in DOMAIN user_sessions |->
              AddWarnings(user_sessions, u, CheckOutputEnd(tasks[t]).results, 1, now)[u]]
    /\ UNCHANGED <<now, ncalls, nticks, only_outage, last_rate,
                   burst, safety_responses, last_response, threads, accepted,
                   last_check, peer_responses, limits>>

CheckOutputResume(t) ==
    /\ tasks[t].pc = "await"
    /\ tasks[t].op = "check_output"
    /\ tasks[t].moderation.kind \in {"response", "raise"}
    /\ tasks' = [tasks EXCEPT ![t] = CheckOutputEnd(tasks[t])]
    /\ UNCHANGED <<now, user_sessions, ncalls, nticks, only_outage, last_rate,
                   burst, safety_responses, last_response, threads, accepted,
                   last_check, peer_responses, limits>>

\* the moderation service answers, or the call fails
ModerationResponds(t, outcome) ==
    /\ tasks[t].pc = "await"
    /\ tasks[t].moderation.kind = "pending"
    /\ tasks' = [tasks EXCEPT ![t].moderation = outcome]
    /\ only_outage' =
          IF tasks[t].op = "check_input"
          THEN [only_outage EXCEPT ![tasks[t].user_id] = @ /\ ModerationFailed(outcome)]
          ELSE only_outage
    /\ UNCHANGED <<now, user_sessions, ncalls, nticks, last_rate, burst,
                   safety_responses, last_response, threads, accepted,
                   last_check, peer_responses, limits>>

Advance(d) ==
    /\ nticks < MaxTicks
    /\ now' = now + d
    /\ nticks' = nticks + 1
    /\ UNCHANGED <<user_sessions, tasks, ncalls, only_outage, last_rate, burst,
                   safety_responses, last_response, threads, accepted,
                   last_check, peer_responses, limits>>

NoRate == [user_id |-> "none", result |-> NoResult, expired |-> FALSE,
           before |-> [message_count |-> 0, warning_count |-> 0],
           after |-> [message_count |-> 0, warning_count |-> 0]]
NoResponse == [results |-> <<>>, response |-> "none", table |-> DefaultResponses]

NoCheck == [op |-> "none"]

IdleThread == [pc |-> "idle", op |-> "none", loaded |-> 0, ops |-> 0]

Init ==
    /\ now = 0
    /\ user_sessions = <<>>
    /\ tasks = [t \in Tasks |-> IdleTask]
    /\ ncalls = 0
    /\ nticks = 0
    /\ only_outage = [u \in Users |-> TRUE]
    /\ last_rate = NoRate
    /\ burst = [u \in Users |-> [first |-> 0, calls |-> 0, warnings |-> 0]]
    /\ safety_responses = DefaultResponses
    /\ last_response = NoResponse
    /\ threads = [th \in Threads |-> IdleThread]
    /\ accepted = [messages |-> 0, warnings |-> 0]
    /\ last_check = NoCheck
    /\ peer_responses = DefaultResponses
    /\ limits = DefaultLimits

\* the pipeline's steps for the tasks of T, with at most n operations started
Pipeline(T, n) ==
    \/ /\ ncalls < n
       /\ \E t \in T, user_id \in Users, input \in Inputs :
             CheckInputStart(t, user_id, input[1], input[2])
    \/ \E t \in T : CheckInputResume(t)
    \/ /\ ncalls < n
       /\ \E t \in T, response \in Responses, query \in Queries :
             CheckOutputStart(t, response, query)
    \/ \E t \in T : CheckOutputResume(t)
    \/ \E t \in T, outcome \in ModerationOutcomes : ModerationResponds(t, outcome)
    \/ \E d \in Delays : Advance(d)

Next == Pipeline(Sequential, MaxCalls)

Spec == Init /\ [][Next]_vars

(***************************************************************************)
(* The RateLimiter called directly, as test_guardrails.py calls            *)
(* add_warning (lines 156-157)                                             *)
(***************************************************************************)
RateUsers == {"alice"}
RateDelays == {59, 60, 1801}
TestReason == <<"Sensitive content detected">>

HasSession(user_id) == user_id \in DOMAIN user_sessions

\* the counters of a user's session (0 without a session, as get_session_stats reports)
Counters(sessions, user_id) ==
    IF user_id \in DOMAIN sessions
    THEN [message_count |-> sessions[user_id].message_count,
          warning_count |-> sessions[user_id].warning_count]
    ELSE [message_count |-> 0, warning_count |-> 0]

\* get_session_stats(user_id) called at time t
get_session_stats(sessions, user_id, t) ==
    IF user_id \in DOMAIN sessions
    THEN [message_count |-> sessions[user_id].message_count,
          warning_count |-> sessions[user_id].warning_count,
          session_duration |-> t - sessions[user_id].session_start,
          violation_history |-> sessions[user_id].violation_history]
    ELSE [message_count |-> 0, warning_count |-> 0, session_duration |-> 0,
          violation_history |-> <<>>]

\* the warnings and violations that get_session_stats reports
Reported(sessions, user_id, t) ==
    LET stats == get_session_stats(sessions, user_id, t)
    IN  [warning_count |-> stats.warning_count,
         violations |-> Len(stats.violation_history)]

RateCheck(user_id) ==
    /\ ncalls < MaxRateCalls
    /\ LET rate == check_rate_limit(user_sessions, user_id, now)
       IN  /\ user_sessions' = rate.sessions
           /\ last_rate' =
                 [user_id |-> user_id, result |-> rate.result,
                  expired |-> /\ HasSession(user_id)
                              /\ now - user_sessions[user_id].last_message_time
                                    > Minutes(session_timeout_minutes),
                  before |-> Counters(user_sessions, user_id),
                  after |-> Counters(rate.sessions, user_id)]
    /\ burst' = [burst EXCEPT ![user_id] =
                    [@ EXCEPT !.first = IF HasSession(user_id) THEN @ ELSE now,
                              !.calls = @ + 1]]
    /\ ncalls' = ncalls + 1
    /\ UNCHANGED <<now, tasks, nticks, only_outage, safety_responses,
                   last_response, threads, accepted, last_check, peer_responses, limits>>

Warn(user_id, reason) ==
    /\ ncalls < MaxRateCalls
    /\ burst[user_id].warnings < MaxWarnings
    /\ user_sessions' = add_warning(user_sessions, user_id, reason, now)
    /\ last_check' =
          [op |-> "add_warning", user_id |-> user_id,
           before |-> Reported(user_sessions, user_id, now),
           after |-> Reported(user_sessions', user_id, now)]
    /\ burst' = [burst EXCEPT ![user_id].warnings = @ + 1]
    /\ ncalls' = ncalls + 1
    /\ UNCHANGED <<now, tasks, nticks, only_outage, last_rate, safety_responses,
                   last_response, threads, accepted, peer_responses, limits>>

RateAdvance(d) ==
    /\ nticks < MaxRateTicks
    /\ now' = now + d
    /\ nticks' = nticks + 1
    /\ UNCHANGED <<user_sessions, tasks, ncalls, only_outage, last_rate, burst,
                   safety_responses, last_response, threads, accepted,
                   last_check, peer_responses, limits>>

NextRate ==
    \/ \E user_id \in RateUsers : RateCheck(user_id)
    \/ \E user_id \in RateUsers : Warn(user_id, TestReason)
    \/ \E d \in RateDelays : RateAdvance(d)

SpecRate == Init /\ [][NextRate]_vars

(***************************************************************************)
(* The pipeline while the moderation service is down: safe messages only,  *)
(* and every moderation call fails                                         *)
(***************************************************************************)
SafeInputs == {input \in Inputs : InputIsSafe(input[1], input[2])}
FailedOutcomes == {o \in ModerationOutcomes : ModerationFailed(o)}

NextOutage ==
    \/ /\ ncalls < MaxOutageCalls
       /\ \E t \in Sequential, user_id \in Users, input \in SafeInputs :
             CheckInputStart(t, user_id, input[1], input[2])
    \/ \E t \in Sequential : CheckInputResume(t)
    \/ \E t \in Sequential, outcome \in FailedOutcomes : ModerationResponds(t, outcome)
    \/ \E d \in Delays : Advance(d)

SpecOutage == Init /\ [][NextOutage]_vars

(***************************************************************************)
(* The pipeline under the event loop's scheduling: a coroutine whose       *)
(* moderation call has completed is resumed.  Nothing makes the            *)
(* moderation service answer.                                              *)
(***************************************************************************)
FairSpec ==
    /\ Init
    /\ [][Next]_vars
    /\ \A t \in Sequential : WF_vars(CheckInputResume(t))
    /\ \A t \in Sequential : WF_vars(CheckOutputResume(t))

(***************************************************************************)
(* get_safety_response and add_custom_safety_response                      *)
(***************************************************************************)
Levels(n) == [1..n -> {[safety_level |-> l] : l \in SafetyLevel}]
ResultLists == UNION {Levels(n) : n \in 0..MaxResults}

GetSafetyResponse(results) ==
    /\ last_response' =
          [results |-> results,
           response |-> get_safety_response(safety_responses, results),
           table |-> safety_responses]
    /\ UNCHANGED <<now, user_sessions, tasks, ncalls, nticks, only_outage,
                   last_rate, burst, safety_responses, threads, accepted,
                   last_check, peer_responses, limits>>

AddCustomSafetyResponse(level, response) ==
    /\ safety_responses' = add_custom_safety_response(safety_responses, level, response)
    /\ UNCHANGED <<now, user_sessions, tasks, ncalls, nticks, only_outage,
                   last_rate, burst, last_response, threads, accepted,
                   last_check, peer_responses, limits>>

NextResponse ==
    \/ \E results \in ResultLists : GetSafetyResponse(results)
    \/ \E level \in SafetyLevel : AddCustomSafetyResponse(level, CustomText)

SpecResponse == Init /\ [][NextResponse]_vars

(***************************************************************************)
(* The RateLimiter called from several threads for one user: a thread      *)
(* switch can fall between the load and the store of `count += 1`          *)
(***************************************************************************)
ThreadUser == "alice"

\* check_rate_limit, lines 262-320: the session is created or reset and the
\* limits are tested
ThreadRateEnter(th) ==
    /\ threads[th].pc = "idle"
    /\ threads[th].ops < MaxThreadOps
    /\ LET created == GetOrCreate(user_sessions, ThreadUser, now)
           session == TimeoutReset(created[ThreadUser], now)
           blocked == \/ PerMinuteExceeded(session, now)
                      \/ PerHourExceeded(session, now)
                      \/ TooManyWarnings(session)
       IN  /\ user_sessions' = [created EXCEPT ![ThreadUser] = session]
           /\ threads' = [threads EXCEPT
                 ![th] = IF blocked
                         THEN [@ EXCEPT !.ops = @ + 1]
                         ELSE [@ EXCEPT !.pc = "load", !.op = "check_rate_limit"]]
    /\ UNCHANGED <<now, tasks, ncalls, nticks, only_outage, last_rate, burst,
                   safety_responses, last_response, accepted, last_check,
                   peer_responses, limits>>

\* add_warning, lines 338-339
ThreadWarnEnter(th) ==
    /\ threads[th].pc = "idle"
    /\ threads[th].ops < MaxThreadOps
    /\ HasSession(ThreadUser)
    /\ threads' = [threads EXCEPT ![th] = [@ EXCEPT !.pc = "load", !.op = "add_warning"]]
    /\ UNCHANGED <<now, user_sessions, tasks, ncalls, nticks, only_outage,
                   last_rate, burst, safety_responses, last_response, accepted,
                   last_check, peer_responses, limits>>

\* the load of `session.message_count += 1` (line 323) or of
\* `session.warning_count += 1` (line 340)
ThreadLoad(th) ==
    /\ threads[th].pc = "load"
    /\ threads' = [threads EXCEPT
          ![th] = [@ EXCEPT
                     !.pc = "store",
                     !.loaded = IF threads[th].op = "check_rate_limit"
                                THEN user_sessions[ThreadUser].message_count
                                ELSE user_sessions[ThreadUser].warning_count]]
    /\ UNCHANGED <<now, user_sessions, tasks, ncalls, nticks, only_outage,
                   last_rate, burst, safety_responses, last_response, accepted,
                   last_check, peer_responses, limits>>

\* the store of the incremented count, and the rest of the method: line 324
\* or line 341
ThreadStore(th) ==
    /\ threads[th].pc = "store"
    /\ user_sessions' =
          IF threads[th].op = "check_rate_limit"
          THEN [user_sessions EXCEPT
                  ![ThreadUser].message_count = threads[th].loaded + 1,
                  ![ThreadUser].last_message_time = now]
          ELSE [user_sessions EXCEPT
                  ![ThreadUser].warning_count = threads[th].loaded + 1,
                  ![ThreadUser].violation_history =
                      Append(@, [time |-> now, reason |-> TestReason])]
    /\ accepted' =
          IF threads[th].op = "check_rate_limit"
          THEN [accepted EXCEPT !.messages = @ + 1]
          ELSE [accepted EXCEPT !.warnings = @ + 1]
    /\ threads' = [threads EXCEPT
          ![th] = [@ EXCEPT !.pc = "idle", !.op = "none", !.loaded = 0, !.ops = @ + 1]]
    /\ UNCHANGED <<now, tasks, ncalls, nticks, only_outage, last_rate, burst,
                   safety_responses, last_response, last_check, peer_responses, limits>>

NextThreads ==
    \/ \E th \in Threads : ThreadRateEnter(th)
    \/ \E th \in Threads : ThreadWarnEnter(th)
    \/ \E th \in Threads : ThreadLoad(th)
    \/ \E th \in Threads : ThreadStore(th)

SpecThreads == Init /\ [][NextThreads]_vars

(***************************************************************************)
(* The content, PII and context checks called directly, any text after any *)
(***************************************************************************)
Few(S) == {x \in SUBSET S : Cardinality(x) <= MaxMatches}

\* texts by the patterns they match
ContentTexts ==
    {Text(h, s, {}, FALSE, 10) :
        h \in Few(DOMAIN harmful_patterns), s \in Few(DOMAIN sensitive_patterns)}
PiiTexts == {Text({}, {}, p, FALSE, 10) : p \in SUBSET DOMAIN pii_patterns}

HistShort == <<10, 20>>
HistLong == <<max_context_length>>
\* two entries that, with the characters of MsgSafe, come to max_context_length
HistExact == <<2000, max_context_length - 2000 - MsgSafe.len>>
ContextInputs ==
    {MsgSafe, MsgSwitch}
        \X {HistEmpty, HistShort, HistManyTurns, HistLong, HistExact}

\* the state a check could touch
Touchable == [user_sessions |-> user_sessions, safety_responses |-> safety_responses]

\* the record of a call: what it returned, what the call right before it
\* returned if that was the same call on the same arguments, and the state
\* around it
Checked(op, text, history, result, after) ==
    [op |-> op, text |-> text, history |-> history, result |-> result,
     repeated |-> /\ last_check.op = op
                  /\ last_check.text = text
                  /\ last_check.history = history,
     previous |-> IF /\ last_check.op = op
                     /\ last_check.text = text
                     /\ last_check.history = history
                  THEN last_check.result ELSE NoResult,
     before |-> Touchable, after |-> after]

CheckContent(text) ==
    /\ last_check' = Checked("check_content", text, <<>>, check_content(text),
                             Touchable)
    /\ UNCHANGED <<now, user_sessions, tasks, ncalls, nticks, only_outage,
                   last_rate, burst, safety_responses, last_response, threads,
                   accepted, peer_responses, limits>>

\* a check_pii that keeps its found_pii list from one call to the next
CheckPii_KeepsFound(text) ==
    /\ last_check' =
          Checked("check_pii", text, <<>>,
                  check_pii([text EXCEPT
                      !.pii = @ \cup (IF last_check.op = "check_pii"
                                      THEN last_check.text.pii ELSE {})]),
                  Touchable)
    /\ UNCHANGED <<now, user_sessions, tasks, ncalls, nticks, only_outage,
                   last_rate, burst, safety_responses, last_response, threads,
                   accepted, peer_responses, limits>>

CheckPii(text) ==
    /\ last_check' = Checked("check_pii", text, <<>>, check_pii(text), Touchable)
    /\ UNCHANGED <<now, user_sessions, tasks, ncalls, nticks, only_outage,
                   last_rate, burst, safety_responses, last_response, threads,
                   accepted, peer_responses, limits>>

ValidateContext(conversation_history, current_message) ==
    /\ last_check' = Checked("validate_context", current_message,
                             conversation_history,
                             validate_context(conversation_history, current_message),
                             Touchable)
    /\ UNCHANGED <<now, user_sessions, tasks, ncalls, nticks, only_outage,
                   last_rate, burst, safety_responses, last_response, threads,
                   accepted, peer_responses, limits>>

\* responses by leak, shared words and length, around the length limit
OutputTexts ==
    {Output(leak, overlap, n) :
        leak \in BOOLEAN, overlap \in 0..MaxOverlap,
        n \in {max_response_length, max_response_length + 1}}
\* queries by their number of distinct words
QueryTexts == {Query(words) : words \in {0, 1, 5, 6, 10, 11}}

ValidateOutput(response, original_query) ==
    /\ last_check' = Checked("validate_output",
                             [response |-> response, query |-> original_query],
                             <<>>, validate_output(response, original_query),
                             Touchable)
    /\ UNCHANGED <<now, user_sessions, tasks, ncalls, nticks, only_outage,
                   last_rate, burst, safety_responses, last_response, threads,
                   accepted, peer_responses, limits>>

NextFilter ==
    \/ \E text \in ContentTexts : CheckContent(text)
    \/ \E text \in PiiTexts : CheckPii(text)
    \/ \E input \in ContextInputs : ValidateContext(input[2], input[1])
    \/ \E response \in OutputTexts, query \in QueryTexts :
          /\ response.overlap <= query.words
          /\ ValidateOutput(response, query)

SpecFilter == Init /\ [][NextFilter]_vars

(***************************************************************************)
(* Two GuardrailsSystem instances, each configured with                    *)
(* add_custom_safety_response                                              *)
(***************************************************************************)
Instances == {"self", "peer"}
OtherText == "Please rephrase your request."
CustomTexts == {CustomText, OtherText}

\* the response table of an instance
TableOf(g) == IF g = "self" THEN safety_responses ELSE peer_responses

\* a response table that the instances share: the call on one of them
\* changes the table of both
Configure_SharedTable(g, level, response) ==
    /\ safety_responses' = add_custom_safety_response(TableOf(g), level, response)
    /\ peer_responses' = add_custom_safety_response(TableOf(g), level, response)
    /\ last_check' =
          [op |-> "add_custom_safety_response", instance |-> g, level |-> level,
           response |-> response,
           before |-> [g2 \in Instances |-> TableOf(g2)]]
    /\ ncalls' = ncalls + 1
    /\ UNCHANGED <<now, user_sessions, tasks, nticks, only_outage, last_rate,
                   burst, last_response, threads, accepted, limits>>

\* add_custom_safety_response(level, response) called on instance g
Configure(g, level, response) ==
    /\ IF g = "self"
       THEN /\ safety_responses' =
                  add_custom_safety_response(safety_responses, level, response)
            /\ UNCHANGED peer_responses
       ELSE /\ peer_responses' =
                  add_custom_safety_response(peer_responses, level, response)
            /\ UNCHANGED safety_responses
    /\ last_check' =
          [op |-> "add_custom_safety_response", instance |-> g, level |-> level,
           response |-> response,
           before |-> [g2 \in Instances |-> TableOf(g2)]]
    /\ ncalls' = ncalls + 1
    /\ UNCHANGED <<now, user_sessions, tasks, nticks, only_outage, last_rate,
                   burst, last_response, threads, accepted, limits>>

NextInstances ==
    /\ ncalls < MaxConfigs
    /\ \E g \in Instances, level \in SafetyLevel, response \in CustomTexts :
          Configure(g, level, response)

SpecInstances == Init /\ [][NextInstances]_vars

(***************************************************************************)
(* Two users: each has a coroutine for their requests, which interleave at *)
(* the moderation call, and the RateLimiter is also called directly        *)
(***************************************************************************)
TaskUser == [t1 |-> "alice", t2 |-> "bob"]
UserInputs == {<<MsgSensitive, HistEmpty>>}
UserOutcomes == {ModClean, ModTimeout}

NextUsers ==
    \/ /\ ncalls < MaxUserCalls
       /\ \E t \in Tasks, input \in UserInputs :
             CheckInputStart(t, TaskUser[t], input[1], input[2])
    \/ \E t \in Tasks : CheckInputResume(t)
    \/ \E t \in Tasks, outcome \in UserOutcomes : ModerationResponds(t, outcome)
    \/ /\ ncalls < MaxUserCalls
       /\ \E user_id \in Users : RateCheck(user_id)
    \/ /\ ncalls < MaxUserCalls
       /\ \E user_id \in Users : Warn(user_id, TestReason)
    \/ \E d \in Delays : Advance(d)

SpecUsers == Init /\ [][NextUsers]_vars

(***************************************************************************)
(* The RateLimiter under configured limits: limits is a plain dict that    *)
(* the caller may set before use, as test_guardrails.py does (lines        *)
(* 198-199)                                                                *)
(***************************************************************************)
\* the values a limit is configured to, besides its default
ConfiguredLimits ==
    [messages_per_minute |-> {2}, messages_per_hour |-> {3},
     session_timeout_minutes |-> {1}]

WindowDelays == {59, 60, 1800, 1801}

\* history: the times of the check_rate_limit calls that returned SAFE
AcceptedAt == IF last_check.op = "check_rate_limit" THEN last_check.accepted_at ELSE <<>>

\* rate_limiter.limits[name] = value, before the first call
SetLimit(name, value) ==
    /\ ncalls = 0
    /\ nticks = 0
    /\ limits[name] = DefaultLimits[name]
    /\ limits' = [limits EXCEPT ![name] = value]
    /\ UNCHANGED <<now, user_sessions, tasks, ncalls, nticks, only_outage,
                   last_rate, burst, safety_responses, last_response, threads,
                   accepted, last_check, peer_responses>>

WindowCheck(user_id) ==
    /\ ncalls < MaxWindowCalls
    /\ LET rate == check_rate_limit(user_sessions, user_id, now)
       IN  /\ user_sessions' = rate.sessions
           /\ last_check' =
                 [op |-> "check_rate_limit", user_id |-> user_id,
                  result |-> rate.result,
                  accepted_at |-> IF rate.result.safety_level = SAFE
                                  THEN Append(AcceptedAt, now)
                                  ELSE AcceptedAt]
    /\ ncalls' = ncalls + 1
    /\ UNCHANGED <<now, tasks, nticks, only_outage, last_rate, burst,
                   safety_responses, last_response, threads, accepted,
                   peer_responses, limits>>

WindowAdvance(d) ==
    /\ nticks < MaxWindowTicks
    /\ now' = now + d
    /\ nticks' = nticks + 1
    /\ UNCHANGED <<user_sessions, tasks, ncalls, only_outage, last_rate, burst,
                   safety_responses, last_response, threads, accepted,
                   last_check, peer_responses, limits>>

NextWindow ==
    \/ \E name \in DOMAIN ConfiguredLimits :
          \E value \in ConfiguredLimits[name] : SetLimit(name, value)
    \/ \E user_id \in RateUsers : WindowCheck(user_id)
    \/ \E d \in WindowDelays : WindowAdvance(d)

SpecWindow == Init /\ [][NextWindow]_vars

(***************************************************************************)
(* Properties of the rate limiter (SpecRate)                               *)
(***************************************************************************)
\* C5: from a fresh session, while all of a user's check_rate_limit calls
\* lie within 60 seconds of the first (and nothing else touches the
\* session), the first messages_per_minute calls are accepted and every
\* later one is BLOCKED by the rate limiter with message_count staying at
\* messages_per_minute.
C5_PerMinuteLimit ==
    \A u \in RateUsers :
        ( /\ HasSession(u)
          /\ last_rate.user_id = u
          /\ burst[u].warnings = 0
          /\ now - burst[u].first < Minutes(1) )
        => IF burst[u].calls <= messages_per_minute
           THEN /\ last_rate.result.safety_level = SAFE
                /\ user_sessions[u].message_count = burst[u].calls
           ELSE /\ last_rate.result.safety_level = BLOCKED
                /\ last_rate.result.guardrail_type = RATE_LIMITING
                /\ ~last_rate.result.is_safe
                /\ user_sessions[u].message_count = messages_per_minute

\* two calls beyond the limit, made at a later instant of the same minute
C5_Witness ==
    \E u \in RateUsers :
        /\ HasSession(u)
        /\ last_rate.user_id = u
        /\ burst[u].warnings = 0
        /\ burst[u].calls = messages_per_minute + 2
        /\ now > burst[u].first
        /\ now - burst[u].first < Minutes(1)
        /\ last_rate.result.safety_level = BLOCKED

\* C6: a check_rate_limit call for an existing session made more than
\* session_timeout after last_message_time returns SAFE and leaves
\* message_count = 1 and warning_count = 0, whatever the session had
\* accumulated.
C6_SessionReset ==
    last_rate.expired =>
        /\ last_rate.result.safety_level = SAFE
        /\ last_rate.result.is_safe
        /\ last_rate.after.message_count = 1
        /\ last_rate.after.warning_count = 0

\* the reset of a session that was blocked for its warnings
C6_Witness ==
    /\ last_rate.expired
    /\ last_rate.before.warning_count >= warnings_per_session
    /\ last_rate.before.message_count > 1
    /\ last_rate.after.message_count = 1

(***************************************************************************)
(* Properties of the pipeline (Spec)                                       *)
(***************************************************************************)
InputDone(t) == tasks[t].pc = "done" /\ tasks[t].op = "check_input"
Finished(t) == tasks[t].pc \in {"done", "raised"}

\* the results of the toxicity check among a coroutine's results
ToxicityResults(t) ==
    SelectSeq(tasks[t].results, LAMBDA r : r.guardrail_type = TOXICITY_DETECTION)

\* C2: when the moderation call fails (a timeout or transport error raised
\* by the client, a malformed response), check_toxicity returns a result
\* with is_safe = true and safety_level = WARNING, and no exception reaches
\* the caller.
C2_DegradeToWarning ==
    \A t \in Tasks :
        (Finished(t) /\ ModerationFailed(tasks[t].moderation)) =>
            /\ tasks[t].pc = "done"
            /\ Len(ToxicityResults(t)) = 1
            /\ ToxicityResults(t)[1].is_safe
            /\ ToxicityResults(t)[1].safety_level = WARNING

\* a check_input whose moderation call came back malformed: five results,
\* the toxicity one a WARNING
C2_Witness ==
    \E t \in Tasks :
        /\ InputDone(t)
        /\ tasks[t].moderation = ModMalformed
        /\ Len(tasks[t].results) = 5
        /\ tasks[t].results[4].safety_level = WARNING

\* C3: check_input returns overall_safe = true only if no result of the
\* returned list is unsafe.
C3_SafeOnlyIfAllSafe ==
    \A t \in Tasks :
        (InputDone(t) /\ tasks[t].ret.safe) =>
            \A i \in 1..Len(tasks[t].ret.value) : tasks[t].ret.value[i].is_safe

\* the reasons add_warning is due for, for a results list
WarnedReasons(results) ==
    LET warn == SelectSeq(results, LAMBDA r : r.safety_level \in {WARNING, UNSAFE})
    IN  [i \in 1..Len(warn) |-> warn[i].reason]

\* C4: when check_input returns, early or not, the reasons it has appended
\* to the user's violation_history are those of its collected results whose
\* safety_level is WARNING or UNSAFE, one entry each.
C4_WarningsRecorded ==
    \A t \in Tasks :
        InputDone(t) => tasks[t].warned = WarnedReasons(tasks[t].ret.value)

CheckOrder == <<RATE_LIMITING, CONTENT_FILTER, PII_DETECTION, TOXICITY_DETECTION,
                CONTEXT_VALIDATION>>

\* C9: the results list of a check_input is a prefix of the order rate
\* limit, content, PII, toxicity, context; it ends at the first unsafe
\* result among the first four checks and is complete otherwise; and the
\* moderation service is called exactly for the messages that the rate
\* limiter, the content filter and the PII check found safe.
C9_FixedOrder ==
    \A t \in Tasks :
        /\ InputDone(t) =>
              LET value == tasks[t].ret.value
              IN  /\ Len(value) \in 1..Len(CheckOrder)
                  /\ \A i \in 1..Len(value) : value[i].guardrail_type = CheckOrder[i]
                  /\ \A i \in 1..Len(value) : (i <= 4 /\ ~value[i].is_safe) => i = Len(value)
                  /\ Len(value) < Len(CheckOrder) => ~value[Len(value)].is_safe
                  /\ tasks[t].moderation_calls = (IF Len(value) >= 4 THEN 1 ELSE 0)
        /\ (tasks[t].op = "check_input" /\ tasks[t].moderation_calls > 0) =>
              /\ Len(tasks[t].results) >= 3
              /\ \A i \in 1..3 : tasks[t].results[i].is_safe

\* a message stopped by the PII check after a content warning: three
\* results and no moderation call
C9_Witness ==
    \E t \in Tasks :
        /\ InputDone(t)
        /\ Len(tasks[t].ret.value) = 3
        /\ tasks[t].ret.value[2].safety_level = WARNING
        /\ tasks[t].ret.value[3].safety_level = UNSAFE
        /\ tasks[t].moderation_calls = 0

(***************************************************************************)
(* Properties of the pipeline during a moderation outage (SpecOutage)      *)
(***************************************************************************)
\* the call was refused for the per-minute or the per-hour limit
OverRateLimit(t) ==
    tasks[t].ret.value[1].reason \in
        {<<"Rate limit exceeded: too many messages per minute">>,
         <<"Rate limit exceeded: too many messages per hour">>}

\* C1: while a user's messages are all safe for the content, PII and
\* context checks and stay under the per-minute and per-hour limits, and
\* every moderation call fails, each of their check_input calls returns
\* overall_safe = true with no BLOCKED result.
C1_OutageNeverBlocks ==
    \A t \in Tasks :
        ( /\ InputDone(t)
          /\ only_outage[tasks[t].user_id]
          /\ ~OverRateLimit(t) )
        => /\ tasks[t].ret.safe
           /\ \A i \in 1..Len(tasks[t].ret.value) :
                 tasks[t].ret.value[i].safety_level # BLOCKED

(***************************************************************************)
(* Properties of the pipeline under fair scheduling (FairSpec)             *)
(***************************************************************************)
\* C8: every check_input and check_output call that waits for the
\* moderation call eventually returns, whether or not the service answers.
C8_EventuallyReturns ==
    \A t \in Sequential : (tasks[t].pc = "await") ~> (tasks[t].pc = "done")

(***************************************************************************)
(* Properties of the threaded rate limiter (SpecThreads)                   *)
(***************************************************************************)
\* C7: once the concurrent calls for a user have completed, message_count
\* is the number of accepted check_rate_limit calls and warning_count the
\* number of add_warning calls: no update is lost.
C7_NoLostUpdate ==
    (HasSession(ThreadUser) /\ \A th \in Threads : threads[th].pc = "idle") =>
        /\ user_sessions[ThreadUser].message_count = accepted.messages
        /\ user_sessions[ThreadUser].warning_count = accepted.warnings

(***************************************************************************)
(* Properties of the safety response (SpecResponse)                        *)
(***************************************************************************)
Rank(level) ==
    CASE level = SAFE -> 0 [] level = WARNING -> 1 [] level = UNSAFE -> 2
      [] level = BLOCKED -> 3

\* the greatest level occurring in the list, SAFE for the empty list
Maximum(results) ==
    LET occurring == {results[i].safety_level : i \in 1..Len(results)} \cup {SAFE}
    IN  CHOOSE m \in occurring : \A l \in occurring : Rank(l) <= Rank(m)

Reorderings(results) ==
    LET n == Len(results)
        bijections == {p \in [1..n -> 1..n] : \A i, j \in 1..n : p[i] = p[j] => i = j}
    IN  {[i \in 1..n |-> results[p[i]]] : p \in bijections}

\* C10: get_safety_response returns the table's text for the maximum level
\* of the list under SAFE < WARNING < UNSAFE < BLOCKED, the fallback
\* message when the table has no entry for it, and the same for every
\* permutation of the list.
C10_MaxSeverityResponse ==
    last_response.response # "none" =>
        LET m == Maximum(last_response.results)
            table == last_response.table
        IN  /\ last_response.response =
                  (IF m \in DOMAIN table THEN table[m] ELSE FallbackText)
            /\ \A other \in Reorderings(last_response.results) :
                  get_safety_response(table, other) = last_response.response

\* an UNSAFE result followed by a WARNING and a SAFE one, default table
C10_Witness ==
    /\ last_response.results =
          <<[safety_level |-> UNSAFE], [safety_level |-> WARNING], [safety_level |-> SAFE]>>
    /\ last_response.table = DefaultResponses
    /\ last_response.response = UnsafeText

(***************************************************************************)
(* Properties of the content, PII and context checks (SpecFilter)          *)
(***************************************************************************)
\* C11: validate_context returns UNSAFE for a current message that contains
\* a prompt-injection indicator phrase, for every history, also one of more
\* than max_turns entries or of more than max_context_length characters.
C11_InjectionAlwaysUnsafe ==
    (last_check.op = "validate_context" /\ last_check.text.switching) =>
        last_check.result.safety_level = UNSAFE

\* the least element of a non-empty set of indices
Least(S) == CHOOSE i \in S : \A j \in S : i <= j

\* C12: check_content returns BLOCKED with is_safe = false for a text that
\* matches a harmful pattern, whatever sensitive patterns it matches, and
\* reports the first matching harmful pattern of the list; WARNING with
\* is_safe = true for a text that matches sensitive patterns only; SAFE for
\* a text that matches neither list.
C12_ContentLevels ==
    last_check.op = "check_content" =>
        LET text == last_check.text
            result == last_check.result
        IN  /\ text.harmful # {} =>
                  /\ result.safety_level = BLOCKED
                  /\ ~result.is_safe
                  /\ <<"pattern_matched", harmful_patterns[Least(text.harmful)]>>
                        \in result.metadata
            /\ (text.harmful = {} /\ text.sensitive # {}) =>
                  /\ result.safety_level = WARNING
                  /\ result.is_safe
            /\ (text.harmful = {} /\ text.sensitive = {}) =>
                  /\ result.safety_level = SAFE
                  /\ result.is_safe

\* a text matching the second and fourth harmful patterns and a sensitive
\* one: BLOCKED for the second
C12_Witness ==
    /\ last_check.op = "check_content"
    /\ last_check.text.harmful = {2, 4}
    /\ last_check.text.sensitive = {1}
    /\ last_check.result.safety_level = BLOCKED
    /\ last_check.result.reason[2] = "weapon_making"

\* the pattern names a pii_found metadata entry lists
NamedPii(result) ==
    UNION {{entry[2][i] : i \in 1..Len(entry[2])} :
              entry \in {e \in result.metadata : e[1] = "pii_found"}}

\* C13: check_pii returns UNSAFE with is_safe = false exactly when a PII
\* pattern matches the text, its metadata then names every matching
\* pattern, and it returns SAFE when none matches.
C13_PiiAllNamed ==
    last_check.op = "check_pii" =>
        LET text == last_check.text
            result == last_check.result
        IN  /\ (result.safety_level = UNSAFE /\ ~result.is_safe) <=> text.pii # {}
            /\ text.pii # {} =>
                  NamedPii(result) = {pii_patterns[i] : i \in text.pii}
            /\ text.pii = {} => (result.safety_level = SAFE /\ result.is_safe)

\* a text with an SSN and an email address: both are named
C13_Witness ==
    /\ last_check.op = "check_pii"
    /\ last_check.text.pii = {1, 3}
    /\ last_check.result.safety_level = UNSAFE
    /\ NamedPii(last_check.result) = {"ssn", "email"}

OutputDone(t) == tasks[t].pc = "done" /\ tasks[t].op = "check_output"

\* C15: check_output returns the result of the last check it executed: the
\* OutputValidator's when that one is unsafe, the moderation service then
\* not being called, and the ToxicityDetector's otherwise; the boolean is
\* true only when both results are safe.
C15_ReturnsLastResult ==
    \A t \in Tasks :
        OutputDone(t) =>
            LET executed == tasks[t].results
            IN  /\ tasks[t].ret.value = <<executed[Len(executed)]>>
                /\ Len(executed) = 1 =>
                      (~executed[1].is_safe /\ tasks[t].moderation_calls = 0)
                /\ tasks[t].ret.safe =>
                      \A i \in 1..Len(executed) : executed[i].is_safe

(***************************************************************************)
(* Properties of the session counters (SpecRate)                           *)
(***************************************************************************)
\* C16: every add_warning(user_id, reason) call increases the warning_count
\* that get_session_stats reports for the user by one and the length of the
\* reported violation_history by one, also for a user id that has sent no
\* message yet.
C16_WarningCounted ==
    last_check.op = "add_warning" =>
        /\ last_check.after.warning_count = last_check.before.warning_count + 1
        /\ last_check.after.violations = last_check.before.violations + 1

IsPrefix(a, b) == Len(a) <= Len(b) /\ SubSeq(b, 1, Len(a)) = a

\* C17: a user's warning_count never decreases, except to 0 in the
\* check_rate_limit call that finds the session timed out, and
\* violation_history only grows at its end, also across a timeout reset.
C17_AppendOnly ==
    [][\A u \in RateUsers :
          HasSession(u) =>
             /\ HasSession(u)'
             /\ IsPrefix(user_sessions[u].violation_history,
                         user_sessions'[u].violation_history)
             /\ user_sessions'[u].warning_count < user_sessions[u].warning_count =>
                   /\ user_sessions'[u].warning_count = 0
                   /\ last_rate'.user_id = u
                   /\ last_rate'.expired
                   /\ ncalls' = ncalls + 1]_vars

\* a session that was reset after two warnings: the count is 0 again and
\* the two entries of violation_history are still there
C17_Witness ==
    \E u \in RateUsers :
        /\ HasSession(u)
        /\ last_rate.user_id = u
        /\ last_rate.expired
        /\ last_rate.before.warning_count = 2
        /\ user_sessions[u].warning_count = 0
        /\ Len(user_sessions[u].violation_history) = 2

C19_OnlyThatEntry ==
    last_check.op = "add_custom_safety_response" =>
        LET g == last_check.instance
            table == TableOf(g)
            before == last_check.before
        IN  /\ \A results \in ResultLists :
                  Maximum(results) = last_check.level =>
                      get_safety_response(table, results) = last_check.response
            /\ \A l \in SafetyLevel \ {last_check.level} :
                  /\ l \in DOMAIN table <=> l \in DOMAIN before[g]
                  /\ l \in DOMAIN table => table[l] = before[g][l]
            /\ \A other \in Instances \ {g} : TableOf(other) = before[other]

\* a text set for SAFE on one instance while the other instance has a
\* custom BLOCKED text and no SAFE entry
C19_Witness ==
    /\ last_check.op = "add_custom_safety_response"
    /\ last_check.instance = "self"
    /\ last_check.level = SAFE
    /\ safety_responses[SAFE] = OtherText
    /\ peer_responses[BLOCKED] = CustomText
    /\ SAFE \notin DOMAIN peer_responses

(***************************************************************************)
(* Properties of message_count in the pipeline (Spec)                      *)
(***************************************************************************)
MessageCount(sessions, u) ==
    IF u \in DOMAIN sessions THEN sessions[u].message_count ELSE 0

\* C20: a check_rate_limit call that returns SAFE makes the user's
\* message_count one more than it was (than 0 for a new or timed-out
\* session) and sets last_message_time to the time of the call, whatever
\* the later checks of the check_input do; no other step changes
\* message_count.
C20_CountsAccepted ==
    [][\A u \in Users :
          LET called == /\ ncalls' = ncalls + 1
                        /\ \E t \in Sequential :
                              /\ tasks'[t].op = "check_input"
                              /\ tasks'[t].user_id = u
              accepted_call == /\ called
                               /\ \E t \in Sequential :
                                     tasks'[t].results[1].safety_level = SAFE
              fresh == \/ ~HasSession(u)
                       \/ now - user_sessions[u].last_message_time
                             > Minutes(session_timeout_minutes)
          IN  IF accepted_call
              THEN /\ MessageCount(user_sessions', u)
                         = (IF fresh THEN 0 ELSE MessageCount(user_sessions, u)) + 1
                   /\ user_sessions'[u].last_message_time = now
              ELSE MessageCount(user_sessions', u) = MessageCount(user_sessions, u)
      ]_vars

\* the second of two messages of a user that the content filter blocked:
\* the rate limiter has counted both
C20_Witness ==
    \E t \in Sequential :
        /\ InputDone(t)
        /\ Len(tasks[t].ret.value) = 2
        /\ tasks[t].ret.value[1].safety_level = SAFE
        /\ tasks[t].ret.value[2].safety_level = BLOCKED
        /\ user_sessions[tasks[t].user_id].message_count = 2

(***************************************************************************)
(* Properties of a session at its warning limit (SpecRate)                 *)
(***************************************************************************)
\* C21: once warning_count has reached warnings_per_session, a
\* check_rate_limit call made no more than session_timeout after
\* last_message_time returns BLOCKED and leaves last_message_time as it
\* was, and a call made later than that resets the counters and returns
\* SAFE.
C21_BlockedUntilTimeout ==
    [][\A u \in RateUsers :
          ( /\ burst'[u].calls = burst[u].calls + 1
            /\ HasSession(u)
            /\ user_sessions[u].warning_count >= warnings_per_session )
          => IF now - user_sessions[u].last_message_time
                   > Minutes(session_timeout_minutes)
             THEN /\ last_rate'.result.safety_level = SAFE
                  /\ user_sessions'[u].warning_count = 0
                  /\ user_sessions'[u].message_count = 1
             ELSE /\ last_rate'.result.safety_level = BLOCKED
                  /\ user_sessions'[u].last_message_time
                        = user_sessions[u].last_message_time]_vars

\* a session with three warnings: a retry a minute later was refused, and
\* the call 1861 seconds after the last accepted message is accepted
C21_Witness ==
    \E u \in RateUsers :
        /\ last_rate.user_id = u
        /\ last_rate.expired
        /\ last_rate.before.warning_count = warnings_per_session
        /\ last_rate.result.safety_level = SAFE
        /\ burst[u].calls = 3
        /\ now = 1861

(***************************************************************************)
(* Properties of a flagged moderation verdict (Spec)                       *)
(***************************************************************************)
\* the names under the flagged_categories key of a result's metadata
FlaggedNames(result) ==
    UNION {{entry[2][i] : i \in 1..Len(entry[2])} :
              entry \in {e \in result.metadata : e[1] = "flagged_categories"}}

\* the categories that a moderation response reports as flagged
ReportedFlagged(response) ==
    {n \in CategoryNames : Truthy(response.categories[n])}

\* C22: on a flagged moderation verdict check_toxicity returns BLOCKED with
\* is_safe = false, its flagged_categories are exactly the moderation
\* categories that the service reported as flagged, with no other
\* attribute name of the response object among them, and its confidence is
\* the greatest score reported for those categories.
C22_FlaggedCategories ==
    \A t \in Tasks :
        ( /\ tasks[t].pc = "done"
          /\ tasks[t].moderation.kind = "response"
          /\ tasks[t].moderation.results > 0
          /\ tasks[t].moderation.flagged )
        => LET result == ToxicityResults(t)[1]
               reported == ReportedFlagged(tasks[t].moderation)
           IN  /\ result.safety_level = BLOCKED
               /\ ~result.is_safe
               /\ FlaggedNames(result) = reported
               /\ FlaggedNames(result) \subseteq CategoryNames
               /\ \E n \in reported :
                     /\ result.confidence = tasks[t].moderation.category_scores[n].val
                     /\ \A other \in reported :
                           tasks[t].moderation.category_scores[other].val
                              <= result.confidence

(***************************************************************************)
(* Properties of the context length check (SpecFilter)                     *)
(***************************************************************************)
\* C23: for a history of at most max_turns entries, validate_context
\* returns the context-length WARNING exactly when the lengths of the
\* history entries' content plus the length of the current message exceed
\* max_context_length; at exactly max_context_length it does not, whatever
\* the number of entries.
C23_LengthThreshold ==
    ( /\ last_check.op = "validate_context"
      /\ Len(last_check.history) <= max_turns )
    => ( last_check.result.reason = <<"Context length exceeds maximum">>
         <=> Sum(last_check.history) + last_check.text.len > max_context_length )

C25_ContextNeverStops ==
    [][\A t \in Sequential :
          ( /\ tasks[t].pc = "await"
            /\ tasks[t].op = "check_input"
            /\ tasks'[t].pc = "done"
            /\ tasks'[t].results[4].is_safe )
          => LET value == tasks'[t].ret.value
                 u == tasks[t].user_id
                 due == WarnedReasons(value)
                 old == user_sessions[u]
                 new == user_sessions'[u]
             IN  /\ Len(value) = 5
                 /\ value[5].safety_level \in {WARNING, UNSAFE} =>
                       /\ new.warning_count = old.warning_count + Len(due)
                       /\ Len(new.violation_history)
                             = Len(old.violation_history) + Len(due)
                       /\ new.violation_history[Len(new.violation_history)].reason
                             = value[5].reason]_vars

\* a message with a switching indicator after a clean moderation answer:
\* five results, the last one UNSAFE, and one warning in the session
C25_Witness ==
    \E t \in Sequential :
        /\ InputDone(t)
        /\ Len(tasks[t].ret.value) = 5
        /\ tasks[t].ret.value[4].safety_level = SAFE
        /\ tasks[t].ret.value[5].safety_level = UNSAFE
        /\ tasks[t].warned = <<tasks[t].ret.value[5].reason>>
        /\ user_sessions[tasks[t].user_id].warning_count = 1

(***************************************************************************)
(* Properties of the rate limiter under configured limits (SpecWindow)     *)
(***************************************************************************)
\* the accepted calls number i .. i + n lie within a span shorter than d
Within(i, n, d) ==
    /\ i + n <= Len(AcceptedAt)
    /\ AcceptedAt[i + n] - AcceptedAt[i] < d

C27_PerHourWindow ==
    \A i \in 1..Len(AcceptedAt) : ~Within(i, messages_per_hour, OneHour)

(***************************************************************************)
(* Properties of the pipeline's effect on the sessions (Spec)              *)
(***************************************************************************)
\* C28: while the check_input calls of a user run one at a time, the
\* user's warning_count never exceeds warnings_per_session + 2: a call
\* passes the rate limiter only below warnings_per_session, and records at
\* most three warnings.
C28_WarningsBounded ==
    \A u \in DOMAIN user_sessions :
        user_sessions[u].warning_count <= warnings_per_session + 2

\* a call that found the user one warning below the limit has recorded
\* three warnings
C28_Witness ==
    \E t \in Sequential :
        /\ InputDone(t)
        /\ Len(tasks[t].warned) = 3
        /\ user_sessions[tasks[t].user_id].warning_count = warnings_per_session + 2

(***************************************************************************)
(* Properties of the sessions of two users (SpecUsers)                     *)
(***************************************************************************)
\* the session of a user, if any
SessionOf(sessions, u) == IF u \in DOMAIN sessions THEN <<sessions[u]>> ELSE <<>>

\* C29: a step of check_input (its start, the moderation call, its
\* resumption), a check_rate_limit call and an add_warning call for one
\* user leave the session of every other user as it is, also while
\* requests of both users are suspended at the moderation call.
C29_OtherSessionsUntouched ==
    [][\A u \in Users :
          LET same == SessionOf(user_sessions', u) = SessionOf(user_sessions, u)
          IN  /\ \A t \in Tasks :
                    ( /\ tasks'[t] # tasks[t]
                      /\ tasks'[t].op = "check_input"
                      /\ tasks'[t].user_id # u ) => same
              /\ (last_rate' # last_rate /\ last_rate'.user_id # u) => same
              /\ ( /\ last_check' # last_check
                   /\ last_check'.op = "add_warning"
                   /\ last_check'.user_id # u ) => same]_vars

\* alice's request, started at time 0, has recorded a warning on its
\* resumption at a later time, while bob's request, started at time 0 too,
\* is still suspended; bob's session is as his request's start left it
C29_Witness ==
    /\ InputDone("t1")
    /\ tasks["t1"].warned # <<>>
    /\ user_sessions["alice"].last_message_time = 0
    /\ user_sessions["alice"].violation_history[1].time > 0
    /\ tasks["t2"].pc = "await"
    /\ tasks["t2"].op = "check_input"
    /\ user_sessions["bob"].last_message_time = 0
    /\ user_sessions["bob"].message_count = 1
    /\ user_sessions["bob"].warning_count = 0

\* C30: no step of check_output (its start, the moderation call, its
\* resumption) changes any user session, whatever verdict it returns.
C30_OutputKeepsSessions ==
    [][\A t \in Sequential :
          (tasks'[t] # tasks[t] /\ tasks'[t].op = "check_output")
             => user_sessions' = user_sessions]_vars

\* check_output has returned a WARNING of the failed toxicity check, and the
\* session that a check_input call created before has no warning
C30_Witness ==
    \E t \in Sequential, u \in Users :
        /\ OutputDone(t)
        /\ Len(tasks[t].results) = 2
        /\ tasks[t].results[2].safety_level = WARNING
        /\ u \in DOMAIN user_sessions
        /\ user_sessions[u].message_count = 1
        /\ user_sessions[u].warning_count = 0
        /\ user_sessions[u].violation_history = <<>>

====
